---------------------------- MODULE Spec2Model ----------------------------
(***************************************************************************)
(* bff: a content-addressed index of a directory tree (index.go) and the   *)
(* comparison of a saved index with the directory's current state.         *)
(*                                                                         *)
(* A file name is a sequence of one-character strings, a path a sequence   *)
(* of names.  A fingerprint (the hex SHA-256 of a file's bytes) is a       *)
(* number of 1..MaxHash: equal bytes give equal numbers, different bytes   *)
(* different numbers.                                                      *)
(***************************************************************************)
EXTENDS Integers, Sequences, FiniteSets, TLC

VARIABLES
    fs,          \* the regular files of the file system: absolute path -> fingerprint of the bytes
    indexFile,   \* the bff.json files: of each its path and the fields of its
                 \* JSON document; {} when there is none
    idx,         \* the Index object: FilesByContentHash, AbsPath, IncludeHidden
    pc,          \* where the caller of the Index stands: "new", "indexed", "loaded",
                 \* "compared", "failed" once a call returned an error, or "exited"
                 \* once main returned
    savedIndex,  \* idx.FilesByContentHash at the entry of the call of the last step
    ret          \* what the call of the last step returned

vars == <<fs, indexFile, idx, pc, savedIndex, ret>>

-----------------------------------------------------------------------------
(* Bounds *)

MaxHash == 2

\* an Index that holds this many records is not scanned into once more
MaxRecords == 2

Hashes == 1..MaxHash

-----------------------------------------------------------------------------
(* Names and paths *)

IndexFile == <<"b", "f", "f", ".", "j", "s", "o", "n">>

Root == << <<"r">> >>

\* byte value of a character, for the lexical order of filepath.Walk
CharCode(c) ==
    CASE c = "." -> 46
      [] c = "a" -> 97
      [] c = "b" -> 98
      [] c = "c" -> 99
      [] c = "d" -> 100
      [] c = "f" -> 102
      [] c = "g" -> 103
      [] c = "h" -> 104
      [] c = "j" -> 106
      [] c = "n" -> 110
      [] c = "o" -> 111
      [] c = "r" -> 114
      [] c = "s" -> 115

\* strings.HasPrefix
HasPrefix(s, prefix) ==
    /\ Len(s) >= Len(prefix)
    /\ SubSeq(s, 1, Len(prefix)) = prefix

\* filepath.Join(dir, name)
Join(dir, name) == Append(dir, name)

\* os.FileInfo.Name(): the base name of the entry
Name(path) == path[Len(path)]

\* filepath.Rel(base, path) for a path below base
Rel(base, path) == SubSeq(path, Len(base) + 1, Len(path))

\* comparison of two strings byte by byte (sort.Strings in readDirNames)
StringLess(s, t) ==
    \E i \in 1..(Len(s) + 1) :
        /\ i <= Len(t)
        /\ \A j \in 1..(i - 1) : s[j] = t[j]
        /\ \/ i = Len(s) + 1
           \/ CharCode(s[i]) < CharCode(t[i])

\* filepath.Walk visits a directory before its entries and the entries of a
\* directory in lexical order of their names
WalkBefore(p, q) ==
    \E i \in 1..(Len(p) + 1) :
        /\ i <= Len(q)
        /\ \A j \in 1..(i - 1) : p[j] = q[j]
        /\ \/ i = Len(p) + 1
           \/ (p[i] # q[i] /\ StringLess(p[i], q[i]))

\* the relative paths the directories of the model may hold, as the tests
\* build them: plain files, a file in a subdirectory, a hidden file
FsPaths == { << <<"a">> >>, << <<".", "h">> >> }

ComparePaths == { << <<"a">> >>, << <<"b">> >>, << <<"f">> >>, << <<"d">>, <<"f">> >> }

\* a directory's content: the files below the root with their fingerprints
Dirs(paths) ==
    UNION { [ {Root \o p : p \in S} -> Hashes ] : S \in SUBSET paths }

\* a root directory whose own name begins with a dot
DotRoot == << <<".", "r">> >>

ScanRoots == { Root, DotRoot }

\* the relative paths of the directories a scan is run on: a plain file, a
\* hidden file, a file in a subdirectory, a hidden file in a subdirectory, a
\* file in a hidden directory
ScanPaths ==
    { << <<"a">> >>, << <<".", "h">> >>, << <<"d">>, <<"f">> >>,
      << <<"d">>, <<".", "h">> >>, << <<".", "g">>, <<"c">> >> }

\* the contents a directory at root may have
DirsAt(root, paths) ==
    UNION { [ {root \o p : p \in S} -> Hashes ] : S \in SUBSET paths }

\* all orders in which a range loop may visit the keys of a map
RECURSIVE Orders(_)
Orders(S) ==
    IF S = {} THEN { <<>> }
    ELSE UNION { { <<x>> \o o : o \in Orders(S \ {x}) } : x \in S }


-----------------------------------------------------------------------------
(* The file system as filepath.Walk sees it *)

\* where the index files lie
IndexFilePaths(ifile) == { f.path : f \in ifile }

\* the regular files below root: the files of fsys, and bff.json once written
FilesBelow(fsys, ifile, root) ==
    { p \in DOMAIN fsys \cup IndexFilePaths(ifile) :
        HasPrefix(p, root) /\ p # root }

\* the directories Walk meets: the root and every directory on the way to a file
DirsBelow(fsys, ifile, root) ==
    {root} \cup UNION { { SubSeq(p, 1, k) : k \in Len(root)..(Len(p) - 1) } :
                          p \in FilesBelow(fsys, ifile, root) }

RECURSIVE SortPaths(_)
SortPaths(S) ==
    IF S = {} THEN <<>>
    ELSE LET first == CHOOSE p \in S : \A q \in S \ {p} : WalkBefore(p, q)
         IN  <<first>> \o SortPaths(S \ {first})

\* the entries in the order Walk hands them to the callback
WalkEntries(fsys, ifile, root) ==
    LET files == FilesBelow(fsys, ifile, root)
        dirs  == DirsBelow(fsys, ifile, root)
        order == SortPaths(files \cup dirs)
    IN  [ i \in 1..Len(order) |-> [path |-> order[i], IsDir |-> order[i] \in dirs] ]

\* the entries in every order a traversal of the tree may take: a directory
\* before what is below it, and what is below it in one run
TraversalOrders(fsys, ifile, root) ==
    LET files == FilesBelow(fsys, ifile, root)
        dirs  == DirsBelow(fsys, ifile, root)
    IN  { [ i \in 1..Len(o) |-> [path |-> o[i], IsDir |-> o[i] \in dirs] ] :
            o \in { x \in Orders(files \cup dirs) :
                      \A i, j \in 1..Len(x) :
                         (i # j /\ HasPrefix(x[j], x[i])) =>
                            /\ i < j
                            /\ \A k \in i..j : HasPrefix(x[k], x[i]) } }

\* an I/O failure of one walk: none, an entry Walk cannot lstat or list
\* ("walk"), or a file ProcessFile cannot stat, open or read ("process")
NoFault == [kind |-> "none", path |-> <<>>]

Faults(fsys, ifile, root) ==
    {NoFault} \cup
    [kind : {"walk"}, path : FilesBelow(fsys, ifile, root) \cup DirsBelow(fsys, ifile, root)] \cup
    [kind : {"process"}, path : FilesBelow(fsys, ifile, root)]

\* the SHA-256 of a file's bytes; the JSON document of the index file has a
\* fingerprint no indexed file has
IndexFileHash == MaxHash + 1

\* ProcessFile: the hash and the FileInfo of a file (Size and ModTime are
\* carried for reporting only), or an error
ProcessFile(fsys, absPath, relPath, fault) ==
    IF fault.kind = "process" /\ fault.path = absPath
    THEN [err |-> TRUE, hash |-> IndexFileHash, fileInfo |-> [Path |-> relPath]]
    ELSE [err |-> FALSE,
          hash |-> IF absPath \in DOMAIN fsys THEN fsys[absPath] ELSE IndexFileHash,
          fileInfo |-> [Path |-> relPath]]

-----------------------------------------------------------------------------
(* Index.scan *)

\* Index.indexPath
indexPath(i) == Join(i.AbsPath, IndexFile)

\* faulty variant: the walked path is compared with the bare file name
IsIndexFileByName(i, path) == path = <<IndexFile>>

\* the first test of the callback: path == idx.indexPath()
IsIndexFile(i, path) == path = indexPath(i)

\* faulty variant: the list of the hash is replaced by the new record, so a
\* hash keeps the file visited last
AppendFileReplaces(files, hash, fileInfo) ==
    [ h \in DOMAIN files \cup {hash} |-> IF h = hash THEN <<fileInfo>> ELSE files[h] ]

\* idx.FilesByContentHash[hash] = append(idx.FilesByContentHash[hash], fileInfo)
AppendFile(files, hash, fileInfo) ==
    [ h \in DOMAIN files \cup {hash} |->
        IF h = hash
        THEN (IF h \in DOMAIN files THEN Append(files[h], fileInfo) ELSE <<fileInfo>>)
        ELSE files[h] ]

\* faulty variant: the callback returns nil for a hidden directory, and Walk
\* goes on with its entries
SkipDirNone(entries, k, dir) == k

\* filepath.SkipDir: the index of the next entry that is not below dir
RECURSIVE SkipDir(_, _, _)
SkipDir(entries, k, dir) ==
    IF k <= Len(entries) /\ HasPrefix(entries[k].path, dir)
    THEN SkipDir(entries, k + 1, dir)
    ELSE k

\* the callback of filepath.Walk in scan, applied to the entries from the
\* k-th on; files is idx.FilesByContentHash, count is indexedFilesCount
RECURSIVE scanWalk(_, _, _, _, _, _, _)
scanWalk(i, fsys, entries, k, files, count, fault) ==
    IF k > Len(entries)
    THEN [FilesByContentHash |-> files, count |-> count, err |-> FALSE]
    ELSE LET path == entries[k].path
             info == entries[k]
         IN  IF fault.kind = "walk" /\ fault.path = path
             THEN [FilesByContentHash |-> files, count |-> 0, err |-> TRUE]
             ELSE IF IsIndexFile(i, path)
             THEN scanWalk(i, fsys, entries, k + 1, files, count, fault)
             ELSE IF ~i.IncludeHidden /\ path # i.AbsPath /\ HasPrefix(Name(path), <<".">>)
             THEN IF info.IsDir
                  THEN scanWalk(i, fsys, entries, SkipDir(entries, k + 1, path), files, count, fault)
                  ELSE scanWalk(i, fsys, entries, k + 1, files, count, fault)
             ELSE IF info.IsDir
             THEN scanWalk(i, fsys, entries, k + 1, files, count, fault)
             ELSE LET relPath == Rel(i.AbsPath, path)
                      pf      == ProcessFile(fsys, path, relPath, fault)
                  IN  IF pf.err
                      THEN [FilesByContentHash |-> files, count |-> 0, err |-> TRUE]
                      ELSE scanWalk(i, fsys, entries, k + 1,
                                    AppendFile(files, pf.hash, pf.fileInfo), count + 1, fault)

\* Index.scan: walks i.AbsPath and appends to i.FilesByContentHash; the
\* records appended before a failure stay in the map
scan(i, fsys, ifile, fault) ==
    scanWalk(i, fsys, WalkEntries(fsys, ifile, i.AbsPath), 1, i.FilesByContentHash, 0, fault)

\* NewIndex
NewIndexValue(rootPath, includeHidden) ==
    [FilesByContentHash |-> <<>>, AbsPath |-> rootPath, IncludeHidden |-> includeHidden]

-----------------------------------------------------------------------------
(* Index.Compare: the classification *)

\* the number of records of a FilesByContentHash map
RecordCount(files) ==
    Cardinality(UNION { {h} \X (1..Len(files[h])) : h \in DOMAIN files })

\* the paths of the records of a FilesByContentHash map
PathsOf(files) ==
    UNION { { files[h][k].Path : k \in 1..Len(files[h]) } : h \in DOMAIN files }

\* the (path, fingerprint) pairs of the records of a FilesByContentHash map
PairsOf(files) ==
    UNION { { <<files[h][k].Path, h>> : k \in 1..Len(files[h]) } : h \in DOMAIN files }

\* savedHashByPath / currentHashByPath: the map filled by ranging over the
\* hashes in the order horder; a path listed under several hashes keeps the
\* hash written last
HashByPath(files, horder) ==
    [ p \in PathsOf(files) |->
        LET at == { n \in 1..Len(horder) :
                      \E k \in 1..Len(files[horder[n]]) : files[horder[n]][k].Path = p }
            last == CHOOSE n \in at : \A m \in at : m <= n
        IN  horder[last] ]

\* the maps the range over the hashes can build
HashByPathChoices(files) ==
    { HashByPath(files, horder) : horder \in Orders(DOMAIN files) }

\* faulty variant of the first loop: the processed flags are set inside the
\* test of the hashes, for modified paths only
ModificationPassMarkModifiedOnly(savedHashByPath, currentHashByPath) ==
    LET both == DOMAIN currentHashByPath \cap DOMAIN savedHashByPath
        modified == { p \in both : currentHashByPath[p] # savedHashByPath[p] }
    IN  [Modified         |-> modified,
         processedCurrent |-> modified,
         processedSaved   |-> modified]

\* faulty variant of the first loop: the processed flags are set for the
\* unchanged paths only
ModificationPassMarkUnchangedOnly(savedHashByPath, currentHashByPath) ==
    LET both == DOMAIN currentHashByPath \cap DOMAIN savedHashByPath
        modified == { p \in both : currentHashByPath[p] # savedHashByPath[p] }
    IN  [Modified         |-> modified,
         processedCurrent |-> both \ modified,
         processedSaved   |-> both \ modified]

\* faulty variant of the first loop: processedSaved is not set
ModificationPassMarkCurrentOnly(savedHashByPath, currentHashByPath) ==
    LET both == DOMAIN currentHashByPath \cap DOMAIN savedHashByPath
    IN  [Modified         |-> { p \in both : currentHashByPath[p] # savedHashByPath[p] },
         processedCurrent |-> both,
         processedSaved   |-> {}]

\* the first loop of Compare: a path of both maps is modified when the
\* hashes differ, and processed on both sides in any case
ModificationPass(savedHashByPath, currentHashByPath) ==
    LET both == DOMAIN currentHashByPath \cap DOMAIN savedHashByPath
    IN  [Modified         |-> { p \in both : currentHashByPath[p] # savedHashByPath[p] },
         processedCurrent |-> both,
         processedSaved   |-> both]

\* faulty variant of the inner loop: it starts at the second record
FirstUnprocessedSkipFirst(savedFiles, processedSaved) ==
    { k \in 2..Len(savedFiles) :
        /\ savedFiles[k].Path \notin processedSaved
        /\ \A j \in 2..(k - 1) : savedFiles[j].Path \in processedSaved }

\* faulty variant of the inner loop: it breaks after the first record,
\* processed or not
FirstUnprocessedFirstOnly(savedFiles, processedSaved) ==
    { k \in 1..Len(savedFiles) : k = 1 /\ savedFiles[k].Path \notin processedSaved }

\* the inner loop of the second loop: the positions of savedFiles up to the
\* first one whose path is not processed yet (where the loop breaks)
FirstUnprocessed(savedFiles, processedSaved) ==
    { k \in 1..Len(savedFiles) :
        /\ savedFiles[k].Path \notin processedSaved
        /\ \A j \in 1..(k - 1) : savedFiles[j].Path \in processedSaved }

\* the iteration of the second loop with the parts a faulty variant leaves
\* out: skip is the test of processedCurrent at the top, markCurrent and
\* markSaved the two assignments after a match
RenameStepWith(savedFiles, currentHashByPath, currentPath, st, skip, markCurrent, markSaved) ==
    LET currentHash == currentHashByPath[currentPath]
    IN  IF skip /\ currentPath \in st.processedCurrent
        THEN st
        ELSE IF currentHash \notin DOMAIN savedFiles
        THEN st
        ELSE LET found == { k \in 1..Len(savedFiles[currentHash]) :
                              /\ savedFiles[currentHash][k].Path \notin st.processedSaved
                              /\ \A j \in 1..(k - 1) :
                                   savedFiles[currentHash][j].Path \in st.processedSaved }
             IN  IF found = {}
                 THEN st
                 ELSE LET savedFile == savedFiles[currentHash][CHOOSE k \in found : TRUE]
                      IN  [st EXCEPT
                             !.RenamedOrMoved   = @ \cup {[OldPath |-> savedFile.Path,
                                                          NewPath |-> currentPath]},
                             !.processedCurrent = IF markCurrent THEN @ \cup {currentPath} ELSE @,
                             !.processedSaved   = IF markSaved THEN @ \cup {savedFile.Path} ELSE @]

\* faulty variant: the new path of a pair is not marked processed
RenameStepNoMarkCurrent(savedFiles, currentHashByPath, currentPath, st) ==
    RenameStepWith(savedFiles, currentHashByPath, currentPath, st, TRUE, FALSE, TRUE)

\* faulty variant: the old path of a pair is not marked processed
RenameStepNoMarkSaved(savedFiles, currentHashByPath, currentPath, st) ==
    RenameStepWith(savedFiles, currentHashByPath, currentPath, st, TRUE, TRUE, FALSE)

\* faulty variant: a current path processed by the first loop is not skipped
RenameStepNoSkip(savedFiles, currentHashByPath, currentPath, st) ==
    RenameStepWith(savedFiles, currentHashByPath, currentPath, st, FALSE, TRUE, TRUE)

\* faulty variant: after a match every saved file of the hash is marked
\* processed
RenameStepMarksHash(savedFiles, currentHashByPath, currentPath, st) ==
    LET currentHash == currentHashByPath[currentPath]
    IN  IF currentPath \in st.processedCurrent
        THEN st
        ELSE IF currentHash \notin DOMAIN savedFiles
        THEN st
        ELSE LET found == FirstUnprocessed(savedFiles[currentHash], st.processedSaved)
             IN  IF found = {}
                 THEN st
                 ELSE LET savedFile == savedFiles[currentHash][CHOOSE k \in found : TRUE]
                      IN  [st EXCEPT
                             !.RenamedOrMoved   = @ \cup {[OldPath |-> savedFile.Path,
                                                          NewPath |-> currentPath]},
                             !.processedCurrent = @ \cup {currentPath},
                             !.processedSaved   = @ \cup { savedFiles[currentHash][k].Path :
                                                            k \in 1..Len(savedFiles[currentHash]) }]

\* one iteration of the second loop, for the key currentPath
RenameStep(savedFiles, currentHashByPath, currentPath, st) ==
    LET currentHash == currentHashByPath[currentPath]
    IN  IF currentPath \in st.processedCurrent
        THEN st
        ELSE IF currentHash \notin DOMAIN savedFiles
        THEN st
        ELSE LET found == FirstUnprocessed(savedFiles[currentHash], st.processedSaved)
             IN  IF found = {}
                 THEN st
                 ELSE LET savedFile == savedFiles[currentHash][CHOOSE k \in found : TRUE]
                      IN  [st EXCEPT
                             !.RenamedOrMoved   = @ \cup {[OldPath |-> savedFile.Path,
                                                          NewPath |-> currentPath]},
                             !.processedCurrent = @ \cup {currentPath},
                             !.processedSaved   = @ \cup {savedFile.Path}]

\* the second loop of Compare, ranging over currentHashByPath in the order ord
RECURSIVE RenamePass(_, _, _, _, _)
RenamePass(savedFiles, currentHashByPath, ord, k, st) ==
    IF k > Len(ord)
    THEN st
    ELSE RenamePass(savedFiles, currentHashByPath, ord, k + 1,
                    RenameStep(savedFiles, currentHashByPath, ord[k], st))

\* faulty variant of the last loop: it tests processedCurrent
ResidualPassDeletedByCurrent(savedHashByPath, currentHashByPath, st) ==
    [Added          |-> { p \in DOMAIN currentHashByPath : p \notin st.processedCurrent },
     Modified       |-> st.Modified,
     Deleted        |-> { p \in DOMAIN savedHashByPath : p \notin st.processedCurrent },
     RenamedOrMoved |-> st.RenamedOrMoved]

\* faulty variant of the loop before the last: it tests processedSaved
ResidualPassAddedBySaved(savedHashByPath, currentHashByPath, st) ==
    [Added          |-> { p \in DOMAIN currentHashByPath : p \notin st.processedSaved },
     Modified       |-> st.Modified,
     Deleted        |-> { p \in DOMAIN savedHashByPath : p \notin st.processedSaved },
     RenamedOrMoved |-> st.RenamedOrMoved]

\* the last two loops of Compare
ResidualPass(savedHashByPath, currentHashByPath, st) ==
    [Added          |-> { p \in DOMAIN currentHashByPath : p \notin st.processedCurrent },
     Modified       |-> st.Modified,
     Deleted        |-> { p \in DOMAIN savedHashByPath : p \notin st.processedSaved },
     RenamedOrMoved |-> st.RenamedOrMoved]

\* the Comparison that Compare builds after the rescan.  Each slice of the
\* result is filled from the keys of a map, every key at most once and in
\* the unspecified order of the range: it is modelled as the set of its elements.
Classify(savedFiles, savedHashByPath, currentHashByPath, ord) ==
    LET m  == ModificationPass(savedHashByPath, currentHashByPath)
        s0 == [Modified |-> m.Modified, RenamedOrMoved |-> {},
               processedCurrent |-> m.processedCurrent,
               processedSaved |-> m.processedSaved]
        s1 == RenamePass(savedFiles, currentHashByPath, ord, 1, s0)
    IN  ResidualPass(savedHashByPath, currentHashByPath, s1)

\* every Comparison that Compare can return for a saved and a current map
Comparisons(savedFiles, currentFiles) ==
    { Classify(savedFiles, shp, chp, ord) :
        shp \in HashByPathChoices(savedFiles),
        chp \in HashByPathChoices(currentFiles),
        ord \in Orders(PathsOf(currentFiles)) }

-----------------------------------------------------------------------------
(* Index.FindAllDuplicates, Index.FindDuplicates *)

\* faulty variant: a list of two records is not kept
DuplicatesOverTwo(files) ==
    [ h \in { x \in DOMAIN files : Len(files[x]) > 2 } |-> files[h] ]

\* FindAllDuplicates: the entries of the map whose list has more than one record
Duplicates(files) ==
    [ h \in { x \in DOMAIN files : Len(files[x]) > 1 } |-> files[h] ]

\* faulty variant: the records are compared with the target by base name
TargetHashByName(files, targetPath, horder) ==
    LET at == { n \in 1..Len(horder) :
                  \E k \in 1..Len(files[horder[n]]) :
                     Name(files[horder[n]][k].Path) = Name(targetPath) }
    IN  IF at = {} THEN {} ELSE { horder[CHOOSE n \in at : \A m \in at : n <= m] }

\* the first loop of FindDuplicates, ranging over the hashes in the order
\* horder: the first hash whose list has a record of targetPath; empty when
\* targetHash stays ""
TargetHash(files, targetPath, horder) ==
    LET at == { n \in 1..Len(horder) :
                  \E k \in 1..Len(files[horder[n]]) :
                     files[horder[n]][k].Path = targetPath }
    IN  IF at = {} THEN {} ELSE { horder[CHOOSE n \in at : \A m \in at : n <= m] }

\* faulty variant: the target itself is left out of the list
MatchingPathsWithoutTarget(files, targetPath, horder) ==
    LET targetHash == TargetHash(files, targetPath, horder)
    IN  IF targetHash = {}
        THEN [err |-> TRUE, matchingPaths |-> {}]
        ELSE LET h == CHOOSE x \in targetHash : TRUE
                 all == [ k \in 1..Len(files[h]) |-> files[h][k].Path ]
             IN  [err |-> FALSE,
                  matchingPaths |-> { SelectSeq(all, LAMBDA q : q # targetPath) }]

\* FindDuplicates: the error when no hash was found, else the paths of the
\* list of targetHash in its order.  The slice is modelled as the set of
\* what it is: empty when nil.
MatchingPaths(files, targetPath, horder) ==
    LET targetHash == TargetHash(files, targetPath, horder)
    IN  IF targetHash = {}
        THEN [err |-> TRUE, matchingPaths |-> {}]
        ELSE LET h == CHOOSE x \in targetHash : TRUE
             IN  [err |-> FALSE,
                  matchingPaths |-> { [ k \in 1..Len(files[h]) |-> files[h][k].Path ] }]

-----------------------------------------------------------------------------
(* The operations *)

NoCall == [op |-> "none", err |-> FALSE, count |-> 0, result |-> {}]

\* json.MarshalIndent(idx): the three exported fields
Marshal(i) ==
    [files_by_content_hash |-> i.FilesByContentHash,
     abs_path              |-> i.AbsPath,
     include_hidden        |-> i.IncludeHidden]

\* the file os.WriteFile leaves at path with the document doc as its bytes
IndexFileAt(path, doc) ==
    [path                  |-> path,
     files_by_content_hash |-> doc.files_by_content_hash,
     abs_path              |-> doc.abs_path,
     include_hidden        |-> doc.include_hidden]

\* os.WriteFile(path, data) among the index files: the file at path is
\* created or replaced
WriteIndexFile(ifile, path, doc) ==
    { f \in ifile : f.path # path } \cup { IndexFileAt(path, doc) }

\* faulty variant: include_hidden of the document is not read, the Index
\* keeps the setting NewIndex gave it
UnmarshalKeepsHidden(doc, i) ==
    [FilesByContentHash |->
        [ h \in DOMAIN i.FilesByContentHash \cup DOMAIN doc.files_by_content_hash |->
            IF h \in DOMAIN doc.files_by_content_hash
            THEN doc.files_by_content_hash[h]
            ELSE i.FilesByContentHash[h] ],
     AbsPath       |-> doc.abs_path,
     IncludeHidden |-> i.IncludeHidden]

\* json.Unmarshal(data, idx): the scalar fields are overwritten; the map is
\* not nil, so it is reused: a key of the document replaces the entry, the
\* other entries of the map stay
Unmarshal(doc, i) ==
    [FilesByContentHash |->
        [ h \in DOMAIN i.FilesByContentHash \cup DOMAIN doc.files_by_content_hash |->
            IF h \in DOMAIN doc.files_by_content_hash
            THEN doc.files_by_content_hash[h]
            ELSE i.FilesByContentHash[h] ],
     AbsPath       |-> doc.abs_path,
     IncludeHidden |-> doc.include_hidden]

\* faulty variant: a missing index file is no error, the Index stays as it is
LoadValuesIgnoreMissing(i, ifile) ==
    IF indexPath(i) \notin IndexFilePaths(ifile)
    THEN { [err |-> FALSE, idx |-> i] }
    ELSE { [err |-> FALSE, idx |-> Unmarshal(doc, i)] :
             doc \in { f \in ifile : f.path = indexPath(i) } }

\* Load: the "index not found" error when os.Stat finds no file at
\* indexPath, else the Index after json.Unmarshal of the file
LoadValues(i, ifile) ==
    IF indexPath(i) \notin IndexFilePaths(ifile)
    THEN { [err |-> TRUE, idx |-> i] }
    ELSE { [err |-> FALSE, idx |-> Unmarshal(doc, i)] :
             doc \in { f \in ifile : f.path = indexPath(i) } }

\* the outcomes of one scan, over the I/O failures that can happen during it
ScanOutcomes(i) ==
    { scan(i, fs, indexFile, fault) : fault \in Faults(fs, indexFile, i.AbsPath) }

\* os.WriteFile(path, content): creates the file or replaces its bytes
WriteFile(p, h) ==
    /\ IF Root \o p \in DOMAIN fs THEN fs[Root \o p] # h ELSE TRUE
    /\ fs' = [ q \in DOMAIN fs \cup {Root \o p} |-> IF q = Root \o p THEN h ELSE fs[q] ]
    /\ savedIndex' = <<>>
    /\ ret' = NoCall
    /\ UNCHANGED <<indexFile, idx, pc>>

\* os.Remove(path)
Remove(p) ==
    /\ Root \o p \in DOMAIN fs
    /\ fs' = [ q \in DOMAIN fs \ {Root \o p} |-> fs[q] ]
    /\ savedIndex' = <<>>
    /\ ret' = NoCall
    /\ UNCHANGED <<indexFile, idx, pc>>

\* idx = NewIndex(rootPath, includeHidden), as main does for every command
NewIndex(includeHidden) ==
    /\ idx' = NewIndexValue(Root, includeHidden)
    /\ pc' = "new"
    /\ savedIndex' = idx.FilesByContentHash
    /\ ret' = [NoCall EXCEPT !.op = "NewIndex"]
    /\ UNCHANGED <<fs, indexFile>>

\* faulty variant: the error of scan is looked at after the file is written
IndexCallWritesFirst ==
    /\ \E s \in ScanOutcomes(idx) :
        /\ savedIndex' = idx.FilesByContentHash
        /\ idx' = [idx EXCEPT !.FilesByContentHash = s.FilesByContentHash]
        /\ pc' = IF s.err THEN "failed" ELSE "indexed"
        /\ indexFile' = WriteIndexFile(indexFile, indexPath(idx'), Marshal(idx'))
        /\ ret' = [op |-> "Index", err |-> s.err, count |-> s.count, result |-> {}]
    /\ UNCHANGED fs

\* idx.Index(): scan, then marshal and write the index file
IndexCall ==
    /\ \E s \in ScanOutcomes(idx) :
        /\ savedIndex' = idx.FilesByContentHash
        /\ idx' = [idx EXCEPT !.FilesByContentHash = s.FilesByContentHash]
        /\ pc' = IF s.err THEN "failed" ELSE "indexed"
        /\ IF s.err
           THEN /\ ret' = [op |-> "Index", err |-> TRUE, count |-> 0, result |-> {}]
                /\ UNCHANGED indexFile
           ELSE /\ indexFile' = WriteIndexFile(indexFile, indexPath(idx'), Marshal(idx'))
                /\ ret' = [op |-> "Index", err |-> FALSE, count |-> s.count, result |-> {}]
    /\ UNCHANGED fs

\* idx.Index() as its callers (main, the tests) call it: on a new Index
Index ==
    /\ pc = "new"
    /\ IndexCall

\* idx.Load(): read and unmarshal the index file
LoadCall ==
    /\ savedIndex' = idx.FilesByContentHash
    /\ \E l \in LoadValues(idx, indexFile) :
        /\ idx' = l.idx
        /\ pc' = IF l.err THEN "failed" ELSE "loaded"
        /\ ret' = [op |-> "Load", err |-> l.err, count |-> 0, result |-> {}]
    /\ UNCHANGED <<fs, indexFile>>

\* idx.Load() as main calls it: on a new Index
Load ==
    /\ pc = "new"
    /\ LoadCall

\* idx.Compare(): keep the loaded map as savedIndex, rescan into a new map,
\* classify.  The result pointer is modelled as the set of what it points
\* to: empty when nil.
\* s is the outcome of the rescan.  "The index must be loaded before
\* calling this method": the callers call it after Index() or Load().
Compare(s) ==
    /\ pc \in {"indexed", "loaded", "compared"}
    /\ pc' = IF s.err THEN "failed" ELSE "compared"
    /\ savedIndex' = idx.FilesByContentHash
    /\ idx' = [idx EXCEPT !.FilesByContentHash = s.FilesByContentHash]
    /\ IF s.err
       THEN ret' = [op |-> "Compare", err |-> TRUE, count |-> 0, result |-> {}]
       ELSE \E c \in Comparisons(idx.FilesByContentHash, s.FilesByContentHash) :
              ret' = [op |-> "Compare", err |-> FALSE, count |-> 0, result |-> {c}]
    /\ UNCHANGED <<fs, indexFile>>

\* idx.FindAllDuplicates().  "The index must be loaded before calling this
\* method": main calls it after Load().
FindAllDuplicates ==
    /\ pc \in {"indexed", "loaded", "compared"}
    /\ savedIndex' = idx.FilesByContentHash
    /\ ret' = [op |-> "FindAllDuplicates", err |-> FALSE, count |-> 0,
               result |-> {Duplicates(idx.FilesByContentHash)}]
    /\ UNCHANGED <<fs, indexFile, idx, pc>>

\* idx.FindDuplicates(targetPath); the result holds the argument beside
\* the returned slice
FindDuplicates(targetPath) ==
    /\ pc \in {"indexed", "loaded", "compared"}
    /\ savedIndex' = idx.FilesByContentHash
    /\ \E horder \in Orders(DOMAIN idx.FilesByContentHash) :
         LET m == MatchingPaths(idx.FilesByContentHash, targetPath, horder)
         IN  ret' = [op |-> "FindDuplicates", err |-> m.err, count |-> 0,
                     result |-> {[targetPath |-> targetPath, matchingPaths |-> m.matchingPaths]}]
    /\ UNCHANGED <<fs, indexFile, idx, pc>>

\* main for "bff compare [--hidden] rootPath": the flag is refused for
\* every command but index; else NewIndex on rootPath without hidden files,
\* Load, Compare, and the process ends.  ret.op holds the command and the
\* flag.
mainCompare(rootPath, hiddenFlag) ==
    /\ pc' = "exited"
    /\ IF hiddenFlag
       THEN /\ ret' = [op |-> "compare --hidden", err |-> TRUE, count |-> 0, result |-> {}]
            /\ savedIndex' = <<>>
            /\ UNCHANGED idx
       ELSE \E l \in LoadValues(NewIndexValue(rootPath, FALSE), indexFile) :
              IF l.err
              THEN /\ ret' = [op |-> "compare", err |-> TRUE, count |-> 0, result |-> {}]
                   /\ savedIndex' = <<>>
                   /\ idx' = l.idx
              ELSE \E s \in ScanOutcomes([l.idx EXCEPT !.FilesByContentHash = <<>>]) :
                     /\ savedIndex' = l.idx.FilesByContentHash
                     /\ idx' = [l.idx EXCEPT !.FilesByContentHash = s.FilesByContentHash]
                     /\ IF s.err
                        THEN ret' = [op |-> "compare", err |-> TRUE, count |-> 0, result |-> {}]
                        ELSE \E c \in Comparisons(l.idx.FilesByContentHash, s.FilesByContentHash) :
                               ret' = [op |-> "compare", err |-> FALSE, count |-> 0, result |-> {c}]
    /\ UNCHANGED <<fs, indexFile>>

-----------------------------------------------------------------------------
(* The life of one Index object over a directory that changes *)

Init ==
    /\ fs = <<>>
    /\ indexFile = {}
    /\ idx \in { NewIndexValue(Root, h) : h \in BOOLEAN }
    /\ pc = "new"
    /\ savedIndex = <<>>
    /\ ret = NoCall

Next ==
    \/ \E p \in FsPaths, h \in Hashes : WriteFile(p, h)
    \/ \E p \in FsPaths : Remove(p)
    \/ \E h \in BOOLEAN : NewIndex(h)
    \/ Index
    \/ Load
    \/ \E s \in ScanOutcomes([idx EXCEPT !.FilesByContentHash = <<>>]) : Compare(s)
    \/ \E hiddenFlag \in BOOLEAN : mainCompare(Root, hiddenFlag)

Spec == Init /\ [][Next]_vars

-----------------------------------------------------------------------------
(* Compare as a function of a saved snapshot and a directory: the Index    *)
(* holds the snapshot of any earlier content of the directory, as Index()  *)
(* built it and Load() reads it back, the directory has any content, and   *)
(* every file of it can be read                                            *)

InitCompare ==
    /\ fs \in Dirs(ComparePaths)
    /\ \E prev \in Dirs(ComparePaths) :
         idx = [NewIndexValue(Root, FALSE) EXCEPT !.FilesByContentHash =
                  scan(NewIndexValue(Root, FALSE), prev, {}, NoFault).FilesByContentHash]
    /\ indexFile = {IndexFileAt(indexPath(idx), Marshal(idx))}
    /\ pc = "loaded"
    /\ savedIndex = <<>>
    /\ ret = NoCall

NextCompare ==
    Compare(scan([idx EXCEPT !.FilesByContentHash = <<>>], fs, indexFile, NoFault))

SpecCompare == InitCompare /\ [][NextCompare]_vars

-----------------------------------------------------------------------------
(* Index() as a function of a directory: a new Index of either setting on  *)
(* a root of either kind of name, the directory has any content, with or   *)
(* without the index file of an earlier run in it                          *)

InitScan ==
    \E root \in ScanRoots :
        /\ fs \in DirsAt(root, ScanPaths)
        /\ idx \in { NewIndexValue(root, h) : h \in BOOLEAN }
        /\ indexFile \in { {}, {IndexFileAt(Join(root, IndexFile),
                                          Marshal(NewIndexValue(root, FALSE)))} }
        /\ pc = "new"
        /\ savedIndex = <<>>
        /\ ret = NoCall

NextScan == Index

SpecScan == InitScan /\ [][NextScan]_vars

-----------------------------------------------------------------------------
(* The duplicate queries as functions of a snapshot: the Index holds the   *)
(* snapshot of a directory of any content                                  *)

InitDuplicates ==
    /\ fs \in Dirs(ComparePaths)
    /\ idx = [NewIndexValue(Root, FALSE) EXCEPT !.FilesByContentHash =
                scan(NewIndexValue(Root, FALSE), fs, {}, NoFault).FilesByContentHash]
    /\ indexFile = {IndexFileAt(indexPath(idx), Marshal(idx))}
    /\ pc = "indexed"
    /\ savedIndex = <<>>
    /\ ret = NoCall

NextDuplicates ==
    \/ FindAllDuplicates
    \/ \E targetPath \in ComparePaths : FindDuplicates(targetPath)

SpecDuplicates == InitDuplicates /\ [][NextDuplicates]_vars

-----------------------------------------------------------------------------
(* One Index object used again and again: Index(), Load() and Compare() in *)
(* any order on the same object, over a directory that changes             *)

\* the directory holds one file at most
ReusePaths == { << <<"a">> >> }

NextReuse ==
    \/ \E p \in ReusePaths, h \in Hashes : WriteFile(p, h)
    \/ \E p \in ReusePaths : Remove(p)
    \/ (RecordCount(idx.FilesByContentHash) < MaxRecords /\ IndexCall)
    \/ LoadCall
    \/ \E s \in ScanOutcomes([idx EXCEPT !.FilesByContentHash = <<>>]) : Compare(s)

SpecReuse == Init /\ [][NextReuse]_vars

-----------------------------------------------------------------------------
(* A copied directory: the directory Root was indexed without hidden       *)
(* files, then copied with its bff.json to CopyRoot; both directories may  *)
(* have changed since.  The comparison is run on the copy.                 *)

CopyRoot == << <<"c">> >>

CopyPaths == { << <<"a">> >>, << <<"b">> >> }

InitCopy ==
    \E prev \in DirsAt(Root, CopyPaths) :
        LET doc == Marshal([NewIndexValue(Root, FALSE) EXCEPT !.FilesByContentHash =
                              scan(NewIndexValue(Root, FALSE), prev, {}, NoFault).FilesByContentHash])
        IN  /\ \E original \in DirsAt(Root, CopyPaths), copy \in DirsAt(CopyRoot, CopyPaths) :
                 fs = original @@ copy
            /\ indexFile = { IndexFileAt(Join(Root, IndexFile), doc),
                             IndexFileAt(Join(CopyRoot, IndexFile), doc) }
            /\ idx = NewIndexValue(CopyRoot, FALSE)
            /\ pc = "new"
            /\ savedIndex = <<>>
            /\ ret = NoCall

NextCopy ==
    \/ \E hiddenFlag \in BOOLEAN : mainCompare(CopyRoot, hiddenFlag)
    \/ Load
    \/ \E s \in ScanOutcomes([idx EXCEPT !.FilesByContentHash = <<>>]) : Compare(s)

SpecCopy == InitCopy /\ [][NextCopy]_vars

-----------------------------------------------------------------------------
(* The two snapshots of the Compare of the last step, and its result *)

\* the Comparison returned by the last step, if it was a Compare that returned one
Results == IF ret.op = "Compare" /\ ~ret.err THEN ret.result ELSE {}

\* the previous snapshot: the records the Index held when Compare was called
PrevPairs == PairsOf(savedIndex)

PrevPaths == { x[1] : x \in PrevPairs }

\* the current snapshot: the files of the directory
CurPairs == { <<Rel(Root, p), fs[p]>> : p \in DOMAIN fs }

CurPaths == { x[1] : x \in CurPairs }

\* the paths present in both snapshots with the same fingerprint
Unchanged == { x[1] : x \in PrevPairs \cap CurPairs }

OldPaths(c) == { r.OldPath : r \in c.RenamedOrMoved }

NewPaths(c) == { r.NewPath : r \in c.RenamedOrMoved }

\* the five path sets of a Comparison
Categories(c) == <<c.Added, c.Modified, c.Deleted, OldPaths(c), NewPaths(c)>>

-----------------------------------------------------------------------------
(* Properties of Compare *)

\* C1: when the directory holds exactly the (path, fingerprint) pairs of the
\* loaded snapshot, Compare returns Added, Modified, Deleted and
\* RenamedOrMoved all empty
CompareUnchangedIsEmpty ==
    \A c \in Results :
        PrevPairs = CurPairs =>
            /\ c.Added = {}
            /\ c.Modified = {}
            /\ c.Deleted = {}
            /\ c.RenamedOrMoved = {}

\* C1 witness: an unchanged directory in which two paths share a fingerprint
\* was compared, and the result is empty
CompareUnchangedSeen ==
    \E c \in Results :
        /\ PrevPairs = CurPairs
        /\ \E x, y \in CurPairs : x[1] # y[1] /\ x[2] = y[2]
        /\ c.Added = {} /\ c.RenamedOrMoved = {}

\* C2: Added, Modified, Deleted, the old paths and the new paths of
\* RenamedOrMoved are pairwise disjoint
CategoriesDisjoint ==
    \A c \in Results :
        \A i, j \in 1..5 : i # j => Categories(c)[i] \cap Categories(c)[j] = {}

\* C2 witness: a Compare that reported an added, a modified and a renamed path
SeveralCategoriesSeen ==
    \E c \in Results :
        /\ c.Added # {}
        /\ c.Modified # {}
        /\ c.RenamedOrMoved # {}

\* C3 as stated: the categories together hold every path of either snapshot
CategoriesCoverAllPaths ==
    \A c \in Results :
        c.Added \cup c.Modified \cup c.Deleted \cup OldPaths(c) \cup NewPaths(c)
            = PrevPaths \cup CurPaths

\* C3 amended: every path of either snapshot that is not unchanged (present
\* in both with the same fingerprint) is in exactly one category, and an
\* unchanged path is in none
CategoriesCoverChangedPaths ==
    \A c \in Results :
        /\ c.Added \cup c.Modified \cup c.Deleted \cup OldPaths(c) \cup NewPaths(c)
              = (PrevPaths \cup CurPaths) \ Unchanged
        /\ \A p \in (PrevPaths \cup CurPaths) \ Unchanged :
              Cardinality({ i \in 1..5 : p \in Categories(c)[i] }) = 1

\* C3 witness: a Compare with an unchanged path, a deleted path and an added path
UnchangedAmongChangesSeen ==
    \E c \in Results :
        /\ Unchanged # {}
        /\ c.Deleted # {}
        /\ c.Added # {}

\* C4: Modified is exactly the paths of both snapshots whose fingerprints
\* differ, and none of them is added, deleted or part of a rename pair
ModifiedExact ==
    \A c \in Results :
        /\ c.Modified = (PrevPaths \cap CurPaths) \ Unchanged
        /\ c.Modified \cap (c.Added \cup c.Deleted \cup OldPaths(c) \cup NewPaths(c)) = {}

\* C4 witness: a path was modified while a new path carries its old content
\* and a vanished path carried its new content
ModifiedWithContentMatchSeen ==
    \E c \in Results : \E p \in c.Modified :
        /\ \E x \in PrevPairs, y \in CurPairs :
             x[1] = p /\ y[1] \notin PrevPaths /\ y[2] = x[2]
        /\ \E x \in PrevPairs, y \in CurPairs :
             y[1] = p /\ x[1] \notin CurPaths /\ x[2] = y[2]

\* p, with fingerprint h, is only in the previous snapshot, q, with the same
\* fingerprint, only in the current one, and no other path of either has h
UniqueMove(p, q, h) ==
    /\ <<p, h>> \in PrevPairs
    /\ <<q, h>> \in CurPairs
    /\ p \notin CurPaths
    /\ q \notin PrevPaths
    /\ \A x \in PrevPairs \cup CurPairs : x[2] = h => x[1] \in {p, q}

\* C5: a unique move from p to q is reported as the pair (p, q) and as
\* nothing else: p is not deleted, q is not added, neither is in another pair
UniqueMoveIsRename ==
    \A c \in Results : \A p \in PrevPaths, q \in CurPaths, h \in Hashes :
        UniqueMove(p, q, h) =>
            /\ [OldPath |-> p, NewPath |-> q] \in c.RenamedOrMoved
            /\ p \notin c.Deleted
            /\ q \notin c.Added
            /\ \A r \in c.RenamedOrMoved :
                 (r.OldPath = p \/ r.NewPath = q) => (r.OldPath = p /\ r.NewPath = q)

\* C5 witness: the file f was moved to d/f and reported so
MoveToSubdirSeen ==
    \E c \in Results : \E h \in Hashes :
        /\ UniqueMove(<< <<"f">> >>, << <<"d">>, <<"f">> >>, h)
        /\ [OldPath |-> << <<"f">> >>, NewPath |-> << <<"d">>, <<"f">> >>] \in c.RenamedOrMoved

\* C6: in every pair, old is a path of the previous snapshot only, new a
\* path of the current snapshot only, they differ and their fingerprints agree
RenamePairsSound ==
    \A c \in Results : \A r \in c.RenamedOrMoved :
        /\ r.OldPath \in PrevPaths \ CurPaths
        /\ r.NewPath \in CurPaths \ PrevPaths
        /\ r.OldPath # r.NewPath
        /\ \E h \in Hashes : <<r.OldPath, h>> \in PrevPairs /\ <<r.NewPath, h>> \in CurPairs

\* C6 witness: a Compare returned a rename pair while another path stayed
\* in place with the same content
RenamePairSeen ==
    \E c \in Results : \E r \in c.RenamedOrMoved :
        \E x \in PrevPairs \cap CurPairs : <<r.NewPath, x[2]>> \in CurPairs

\* C7: no previous path is the old path of two pairs, no current path the
\* new path of two pairs
RenameOneToOne ==
    \A c \in Results : \A r1, r2 \in c.RenamedOrMoved :
        (r1.OldPath = r2.OldPath \/ r1.NewPath = r2.NewPath) => r1 = r2

\* C7 witness: two previous-only and two current-only paths share one
\* fingerprint and two pairs were returned
TwoRenamesOneHashSeen ==
    \E c \in Results : \E r1, r2 \in c.RenamedOrMoved : \E h \in Hashes :
        /\ r1 # r2
        /\ <<r1.NewPath, h>> \in CurPairs
        /\ <<r2.NewPath, h>> \in CurPairs

\* C8: no added path has the fingerprint of a deleted path
RenameMaximal ==
    \A c \in Results : \A q \in c.Added, p \in c.Deleted :
        ~ \E h \in Hashes : <<q, h>> \in CurPairs /\ <<p, h>> \in PrevPairs

\* C8 witness: a Compare left a deleted path and an added path, and the
\* added path has the fingerprint of a previous path that was matched to
\* another current path
AddedAndDeletedSeen ==
    \E c \in Results :
        /\ c.Deleted # {}
        /\ \E q \in c.Added, r \in c.RenamedOrMoved, h \in Hashes :
             <<q, h>> \in CurPairs /\ <<r.OldPath, h>> \in PrevPairs

\* C9: every run of Compare on the two snapshots of the last step returns
\* the Comparison that this run returned
CompareDeterministic ==
    Results # {} => Comparisons(savedIndex, idx.FilesByContentHash) = Results

\* C10: after Compare returns, with a result or an error, the Index holds
\* the records it held before the call
CompareKeepsIndex ==
    ret.op = "Compare" => idx.FilesByContentHash = savedIndex

-----------------------------------------------------------------------------
(* Properties of scan *)

\* the names of path below the directory root
NamesBelow(root, path) == { path[k] : k \in (Len(root) + 1)..Len(path) }

\* the regular files a scan of the Index has to record: all the files of the
\* directory, without those with a dot name below the root unless hidden
\* files are included
Recordable ==
    { p \in DOMAIN fs :
        \/ idx.IncludeHidden
        \/ \A n \in NamesBelow(idx.AbsPath, p) : n[1] # "." }

\* C11: Index() on a new Index records exactly the regular files of the
\* directory that are not the index file and, unless hidden files are
\* included, have no name beginning with a dot below the root; each once,
\* under the fingerprint of its bytes, and they are what it counts
ScanRecordsVisibleFiles ==
    (ret.op = "Index" /\ ~ret.err) =>
        /\ PairsOf(idx.FilesByContentHash)
             = { <<Rel(idx.AbsPath, p), fs[p]>> : p \in Recordable }
        /\ RecordCount(idx.FilesByContentHash) = Cardinality(Recordable)
        /\ ret.count = Cardinality(Recordable)

\* C11 witness: an Index() without hidden files, on a root with a dot name
\* that holds the index file, a hidden file, a file in a hidden directory
\* and files in a plain directory, recorded some file
ScanPrunedHiddenSeen ==
    /\ ret.op = "Index" /\ ~ret.err
    /\ ~idx.IncludeHidden
    /\ idx.AbsPath = DotRoot
    /\ { DotRoot \o p : p \in ScanPaths } \subseteq DOMAIN fs
    /\ savedIndex = <<>>
    /\ ret.count = 2

\* the paths a Comparison reports
Reported(c) == c.Added \cup c.Modified \cup c.Deleted \cup OldPaths(c) \cup NewPaths(c)

\* C12: bff.json of the root is no record of the Index nor of the saved
\* index file, whatever scan built them, and no Comparison reports it
IndexFileNeverRecorded ==
    /\ <<IndexFile>> \notin PathsOf(idx.FilesByContentHash)
    /\ \A doc \in indexFile : <<IndexFile>> \notin PathsOf(doc.files_by_content_hash)
    /\ \A c \in Results : <<IndexFile>> \notin Reported(c)

\* C12 witness: a Compare that includes hidden files rescanned the
\* directory, which holds bff.json, and reported changes
RescanBesideIndexFileSeen ==
    /\ indexFile # {}
    /\ idx.IncludeHidden
    /\ idx.FilesByContentHash # <<>>
    /\ \E c \in Results : c.Added # {} /\ c.Modified # {}

-----------------------------------------------------------------------------
(* Properties of Index() *)

\* C13: an Index() whose scan meets an I/O failure returns an error and the
\* count 0, and leaves the index file as it was: absent or with the
\* document it held
IndexFailureWritesNothing ==
    [][ (ret'.op = "Index" /\ ret'.err) => (ret'.count = 0 /\ indexFile' = indexFile) ]_vars

\* C13 witness: an Index() failed after its scan had recorded a file, in a
\* directory that holds the index file of an earlier Index()
IndexFailedBesideIndexFileSeen ==
    /\ ret.op = "Index" /\ ret.err
    /\ idx.FilesByContentHash # <<>>
    /\ \E doc \in indexFile : doc.files_by_content_hash # idx.FilesByContentHash

-----------------------------------------------------------------------------
(* Properties of the duplicate queries *)

\* the snapshot: the (path, fingerprint) pairs of the records of the Index
Snapshot == PairsOf(idx.FilesByContentHash)

\* the paths recorded under the fingerprint h
PathsWith(h) == { x[1] : x \in { y \in Snapshot : y[2] = h } }

\* the paths of a list of records
ListPaths(list) == { list[k].Path : k \in 1..Len(list) }

\* C14: the keys of the map FindAllDuplicates returns are exactly the
\* fingerprints with two or more records in the snapshot, and each is
\* mapped to all the records of that fingerprint, each once
AllDuplicatesExact ==
    ret.op = "FindAllDuplicates" =>
        \A d \in ret.result :
            /\ DOMAIN d = { h \in Hashes : Cardinality(PathsWith(h)) >= 2 }
            /\ \A h \in DOMAIN d :
                 /\ ListPaths(d[h]) = PathsWith(h)
                 /\ Len(d[h]) = Cardinality(PathsWith(h))

\* C14 witness: FindAllDuplicates returned a group of three records and
\* left out a fingerprint that has a single record
DuplicateGroupsSeen ==
    /\ ret.op = "FindAllDuplicates"
    /\ \E d \in ret.result :
         /\ \E h \in DOMAIN d : Len(d[h]) = 3
         /\ \E h \in Hashes : h \notin DOMAIN d /\ Cardinality(PathsWith(h)) = 1

\* the call of FindDuplicates of the last step: its argument and its slice
FindCalls == IF ret.op = "FindDuplicates" THEN ret.result ELSE {}

\* C15: for a target path that is recorded, FindDuplicates returns without
\* error the paths recorded under the target's fingerprint, each once, the
\* target among them; alone when no other path has its fingerprint
FindDuplicatesExact ==
    \A call \in FindCalls :
        call.targetPath \in { x[1] : x \in Snapshot } =>
            /\ ~ret.err
            /\ \E list \in call.matchingPaths :
                 /\ \E h \in Hashes :
                      /\ <<call.targetPath, h>> \in Snapshot
                      /\ { list[k] : k \in 1..Len(list) } = PathsWith(h)
                      /\ Len(list) = Cardinality(PathsWith(h))
                      /\ PathsWith(h) = {call.targetPath} => list = <<call.targetPath>>
                 /\ \E k \in 1..Len(list) : list[k] = call.targetPath

\* C15 witness: FindDuplicates returned the target and two other paths
TwinsFoundSeen ==
    \E call \in FindCalls : \E list \in call.matchingPaths :
        /\ Len(list) = 3
        /\ list[1] # call.targetPath

\* C16: FindDuplicates returns an error exactly when the target path is no
\* record of the snapshot, and then it returns no list
FindDuplicatesErrorIffMissing ==
    \A call \in FindCalls :
        /\ ret.err <=> call.targetPath \notin { x[1] : x \in Snapshot }
        /\ ret.err => call.matchingPaths = {}

\* C16 witness: FindDuplicates failed for a path that is not recorded, in a
\* snapshot that records a file of the same name in another directory
MissingTargetSeen ==
    \E call \in FindCalls :
        /\ ret.err
        /\ call.targetPath = << <<"f">> >>
        /\ << <<"d">>, <<"f">> >> \in { x[1] : x \in Snapshot }

-----------------------------------------------------------------------------
(* Properties of the hidden-file setting *)

\* a path with a name that begins with a dot
IsHiddenPath(p) == \E k \in 1..Len(p) : p[k][1] = "."

\* C17: a Compare follows the setting saved in the index file.  Saved
\* without hidden files, it reports no hidden path; saved with hidden files,
\* it reports a hidden path like any other: new in the directory as added
\* or as the new path of a rename, gone from it as deleted or as the old
\* path of a rename, in both with other bytes as modified
CompareFollowsSavedHidden ==
    \A c \in Results : \A doc \in indexFile :
        IF doc.include_hidden
        THEN \A p \in { q \in PrevPaths \cup CurPaths : IsHiddenPath(q) } :
                /\ p \in CurPaths \ PrevPaths => p \in c.Added \cup NewPaths(c)
                /\ p \in PrevPaths \ CurPaths => p \in c.Deleted \cup OldPaths(c)
                /\ p \in (PrevPaths \cap CurPaths) \ Unchanged => p \in c.Modified
                /\ p \in Unchanged => p \notin Reported(c)
        ELSE \A p \in Reported(c) : ~IsHiddenPath(p)

\* C17 witness: a Compare under an index saved without hidden files
\* reported a change while the directory held a hidden file
HiddenFileIgnoredSeen ==
    \E c \in Results : \E doc \in indexFile :
        /\ ~doc.include_hidden
        /\ Reported(c) # {}
        /\ \E p \in CurPaths : IsHiddenPath(p)

\* the run of "bff compare" of the last step, with or without --hidden
CompareRuns == IF ret.op \in {"compare", "compare --hidden"} THEN {ret} ELSE {}

\* C18: "bff compare --hidden" on an index saved without hidden files
\* compares, and its rescan records the hidden files of the directory
HiddenFlagOverridesSaved ==
    \A run \in CompareRuns : \A doc \in indexFile :
        (run.op = "compare --hidden" /\ ~doc.include_hidden) =>
            /\ ~run.err
            /\ \A p \in CurPaths : p \in PathsOf(idx.FilesByContentHash)

\* C19: with no index file in the directory, Load and "bff compare" return
\* an error and no Comparison, and no Compare has a result
CompareWithoutIndexFails ==
    indexFile = {} =>
        /\ ret.op \in {"Load", "compare", "compare --hidden"} => ret.err /\ ret.result = {}
        /\ Results = {}

\* C19 witness: "bff compare" failed in a directory that holds files and no
\* index file
CompareWithoutIndexSeen ==
    /\ indexFile = {}
    /\ DOMAIN fs # {}
    /\ ret.op = "compare"
    /\ ret.err

-----------------------------------------------------------------------------
(* Properties of the snapshot *)

\* C20: no two records of the Index have the same path
RecordPathsUnique ==
    RecordCount(idx.FilesByContentHash) = Cardinality(PathsOf(idx.FilesByContentHash))

\* the records a scan of the directory as it is, into an empty map, leaves
\* when the traversal hands the entries over in the order entries
RescanPairs(entries) ==
    PairsOf(scanWalk([idx EXCEPT !.FilesByContentHash = <<>>], fs, entries, 1, <<>>, 0,
                     NoFault).FilesByContentHash)

\* C21: after an Index() on a new Index, a Compare or a "bff compare" has
\* scanned the directory, a scan of the same directory in any traversal
\* order records the same paths with the same fingerprints
RescanSameRecords ==
    (ret.op \in {"Index", "Compare", "compare"} /\ ~ret.err) =>
        \A entries \in TraversalOrders(fs, indexFile, idx.AbsPath) :
            RescanPairs(entries) = Snapshot

\* C21 witness: a Compare rescanned a directory of two files with the same
\* bytes and the index file, and left the records it had found
RescanOfUnchangedSeen ==
    /\ ret.op = "Compare" /\ ~ret.err
    /\ indexFile # {}
    /\ savedIndex = idx.FilesByContentHash
    /\ \E h \in Hashes : Cardinality(PathsWith(h)) = 2

-----------------------------------------------------------------------------
(* Properties of repeated comparisons *)

\* the last step was a comparison that returned a Comparison
Compared == ret.op \in {"Compare", "compare"} /\ ~ret.err

\* C22: a comparison that follows a comparison at once, the directory as it
\* was and no Index() in between, returns the Comparison the first one
\* returned, and leaves the index file as it is
CompareTwiceSameResult ==
    [][ (Compared /\ Compared') => (ret'.result = ret.result /\ indexFile' = indexFile) ]_vars

-----------------------------------------------------------------------------
(* Properties of Compare: copies and counts *)

\* q is a copy of p: p is a path of both snapshots, q a path of the current
\* one only, and q has the fingerprint p had
CopyOf(p, q) ==
    /\ p \in PrevPaths \cap CurPaths
    /\ q \in CurPaths \ PrevPaths
    /\ \E h \in Hashes : <<p, h>> \in PrevPairs /\ <<q, h>> \in CurPairs

\* the previous-only paths that had the fingerprint q has
GoneWithHashOf(q) ==
    { p \in PrevPaths \ CurPaths :
        \E h \in Hashes : <<p, h>> \in PrevPairs /\ <<q, h>> \in CurPairs }

\* C23 as stated: a copy is reported in Added and in no pair, and its
\* original is the old path of no pair
CopyIsAdded ==
    \A c \in Results : \A p \in PrevPaths, q \in CurPaths :
        CopyOf(p, q) =>
            /\ q \in c.Added
            /\ q \notin NewPaths(c)
            /\ p \notin OldPaths(c)

\* C23 amended: the original of a copy is the old path of no pair; the copy
\* is in Added when no previous-only path had its fingerprint, and else in
\* Added or the new path of a pair whose old path is such a path
CopyNeverPairedWithOriginal ==
    \A c \in Results : \A p \in PrevPaths, q \in CurPaths :
        CopyOf(p, q) =>
            /\ p \notin OldPaths(c)
            /\ (q \in c.Added) # (q \in NewPaths(c))
            /\ GoneWithHashOf(q) = {} => q \in c.Added
            /\ \A r \in c.RenamedOrMoved : r.NewPath = q => r.OldPath \in GoneWithHashOf(q)

\* C23 witness: a Compare reported a copy as added while its original,
\* with other bytes now, was reported as modified
CopyOfModifiedSeen ==
    \E c \in Results : \E p \in PrevPaths, q \in CurPaths :
        /\ CopyOf(p, q)
        /\ p \in c.Modified
        /\ q \in c.Added
        /\ c.RenamedOrMoved = {}

\* C24: a comparison run on the copy of an indexed directory, with the
\* bff.json copied along, has scanned the copy: the Index has the root it
\* was opened on and the records of the files below that root
CompareScansOpenedRoot ==
    Compared =>
        /\ idx.AbsPath = CopyRoot
        /\ Snapshot = { <<Rel(CopyRoot, p), fs[p]>> :
                          p \in { q \in DOMAIN fs : HasPrefix(q, CopyRoot) } }

\* the previous-only paths that had the fingerprint h
GoneWith(h) == { p \in PrevPaths \ CurPaths : <<p, h>> \in PrevPairs }

\* the current-only paths that have the fingerprint h
NewWith(h) == { q \in CurPaths \ PrevPaths : <<q, h>> \in CurPairs }

\* the pairs of a Comparison whose new path has the fingerprint h
PairsWith(c, h) == { r \in c.RenamedOrMoved : <<r.NewPath, h>> \in CurPairs }

Min(m, n) == IF m <= n THEN m ELSE n

\* C25: for every fingerprint, Compare returns as many pairs of it as the
\* smaller of its previous-only and its current-only paths number; and
\* every run of Compare on the two snapshots returns as many added,
\* deleted and renamed entries as this run did
RenameCountIsMin ==
    \A c \in Results :
        /\ \A h \in Hashes :
             Cardinality(PairsWith(c, h))
               = Min(Cardinality(GoneWith(h)), Cardinality(NewWith(h)))
        /\ \A other \in Comparisons(savedIndex, idx.FilesByContentHash) :
             /\ Cardinality(other.Added) = Cardinality(c.Added)
             /\ Cardinality(other.Deleted) = Cardinality(c.Deleted)
             /\ Cardinality(other.RenamedOrMoved) = Cardinality(c.RenamedOrMoved)

\* C25 witness: a Compare returned two pairs of one fingerprint, and
\* another run on the same snapshots pairs the paths otherwise
TwoPairingsSeen ==
    \E c \in Results : \E h \in Hashes :
        /\ Cardinality(PairsWith(c, h)) = 2
        /\ Comparisons(savedIndex, idx.FilesByContentHash) # {c}

\* C26: for two snapshots that record each path once, the unchanged paths
\* are in no category, and the current paths number as many as the
\* unchanged, modified, renamed and added ones together, the previous paths
\* as many as the unchanged, modified, renamed and deleted ones together
CountsBalance ==
    \A c \in Results :
        (/\ RecordCount(savedIndex) = Cardinality(PrevPaths)
         /\ RecordCount(idx.FilesByContentHash) = Cardinality(CurPaths)) =>
            /\ Unchanged \cap Reported(c) = {}
            /\ Cardinality(CurPaths)
                 = Cardinality(Unchanged) + Cardinality(c.Modified)
                   + Cardinality(c.RenamedOrMoved) + Cardinality(c.Added)
            /\ Cardinality(PrevPaths)
                 = Cardinality(Unchanged) + Cardinality(c.Modified)
                   + Cardinality(c.RenamedOrMoved) + Cardinality(c.Deleted)

\* C26 witness: a Compare of a previous snapshot of two paths with a
\* current one of three left a path unchanged and reported a renamed and
\* an added path
BalancedCountsSeen ==
    \E c \in Results :
        /\ Unchanged # {}
        /\ c.RenamedOrMoved # {}
        /\ c.Added # {}
        /\ Cardinality(CurPaths) = 3
        /\ Cardinality(PrevPaths) = 2

=============================================================================
